---- MODULE Spec2Model ----
(***************************************************************************)
(* BudgetApp: the Plaid proxy (BudgetAppBackend/app.py, Flask) and the     *)
(* file-upload service (app/main.py, FastAPI).                             *)
(*                                                                         *)
(* Spec       : the proxy.  One request is handled at a time; a request of *)
(*              get_transactions is split at its two blocking upstream     *)
(*              calls, between which the wall clock may advance.           *)
(* SpecUpload : the upload service.  Two requests run concurrently and are *)
(*              split at the steps that touch the upload directory.        *)
(***************************************************************************)
EXTENDS Integers, Sequences, FiniteSets, TLC

VARIABLES
    \* ---- proxy (BudgetAppBackend/app.py)
    pc,              \* "idle" | "gt_accounts" | "gt_transactions" | "done"
    endpoint,        \* the route of the request being handled
    request,         \* its input: the JSON body or the query arguments
    calls,           \* upstream calls issued for this request, in order
    replies,         \* what came back for each of them
    now_reads,       \* values datetime.now() returned for the date window
    end_date,        \* local of get_transactions (days since 1970-01-01)
    start_date,      \* local of get_transactions
    accounts_result, \* local of get_transactions
    resp,            \* the response returned to the caller
    clock,           \* today's date, days since 1970-01-01
    ticks,           \* midnights passed so far
    \* ---- upload service (app/main.py)
    disk,            \* the upload directory: path -> bytes, or NoFile
    upc,             \* per request: position in upload_file
    upload,          \* per request: the multipart file (filename, bytes)
    content,         \* per request: local `content`
    uresp,           \* per request: the response
    writes           \* order in which the requests' writes completed

backendVars == <<pc, endpoint, request, calls, replies, now_reads, end_date,
                 start_date, accounts_result, resp, clock, ticks>>
uploadVars == <<disk, upc, upload, content, uresp, writes>>
vars == <<backendVars, uploadVars>>

(***************************************************************************)
(* Bounds of the model.                                                    *)
(***************************************************************************)
MaxTxns == 2       \* longest upstream transactions list
MaxTicks == 2      \* midnights that may pass
MaxLen == 2        \* longest uploaded file, in bytes

(***************************************************************************)
(* JSON values, tagged.                                                    *)
(***************************************************************************)
JNull == [t |-> "null"]
JBool(b) == [t |-> "bool", b |-> b]
JNum(n) == [t |-> "num", n |-> n]
JStr(s) == [t |-> "str", s |-> s]
JList(l) == [t |-> "list", l |-> l]
JObj(f) == [t |-> "obj", f |-> f]
EmptyObj == JObj(<<>>)

\* A Python evaluation: a value, or the exception it raised.
Ok(v) == [ok |-> TRUE, v |-> v]
Raise(e) == [ok |-> FALSE, exc |-> e]

Affixes == {"", "x"}
\* `key in s` on two strings: substring.
Substring(key, s) == \E p \in Affixes, q \in Affixes : s = p \o key \o q

\* Python `key in v`.
PyIn(key, v) ==
    CASE v.t = "obj" -> Ok(key \in DOMAIN v.f)
      [] v.t = "list" -> Ok(\E i \in 1..Len(v.l) : v.l[i] = JStr(key))
      [] v.t = "str" -> Ok(Substring(key, v.s))
      [] OTHER -> Raise("TypeError")

\* Python `v[key]` with a string key.
PyIndex(v, key) ==
    CASE v.t = "obj" -> IF key \in DOMAIN v.f THEN Ok(v.f[key]) ELSE Raise("KeyError")
      [] OTHER -> Raise("TypeError")

\* Python `v.get(key, default)`: only dicts have it.
PyGet(v, key, default) ==
    CASE v.t = "obj" -> Ok(IF key \in DOMAIN v.f THEN v.f[key] ELSE default)
      [] OTHER -> Raise("AttributeError")

\* Python truthiness.
PyTruthy(v) ==
    CASE v.t = "null" -> FALSE
      [] v.t = "bool" -> v.b
      [] v.t = "num" -> v.n # 0
      [] v.t = "str" -> v.s # ""
      [] v.t = "list" -> v.l # <<>>
      [] v.t = "obj" -> DOMAIN v.f # {}

\* Python str(v) of the values a transaction date takes.
PyStr(v) ==
    CASE v.t = "null" -> JStr("None")
      [] v.t = "str" -> v
      [] v.t = "bool" -> JStr(IF v.b THEN "True" ELSE "False")
      [] OTHER -> JStr("<repr>")

(***************************************************************************)
(* Responses.                                                              *)
(***************************************************************************)
NoResp == [status |-> 0, body |-> JNull]
Response(status, body) == [status |-> status, body |-> body]

\* jsonify({'error': str(e)}), 500
InternalError(e) == Response(500, JObj([k \in {"error"} |-> JStr(e)]))

(***************************************************************************)
(* Dates.  datetime.date is held as days since 1970-01-01; str(date) is    *)
(* the ISO form, held as <<year, month, day>>.                             *)
(***************************************************************************)
WINDOW_DAYS == 730

IsoDate(z) ==
    LET s == z + 719468
        era == s \div 146097
        doe == s - era * 146097
        yoe == (doe - doe \div 1460 + doe \div 36524 - doe \div 146096) \div 365
        doy == doe - (365 * yoe + yoe \div 4 - yoe \div 100)
        mp == (5 * doy + 2) \div 153
        d == doy - (153 * mp + 2) \div 5 + 1
        m == IF mp < 10 THEN mp + 3 ELSE mp - 9
        y == yoe + era * 400 + (IF m <= 2 THEN 1 ELSE 0)
    IN  <<y, m, d>>

NoDate == <<>>

\* start_date = end_date - timedelta(days=730)
StartDateShort(end) == end - 365
StartDate(end) == end - WINDOW_DAYS

(***************************************************************************)
(* Upstream (Plaid).  A call raises (no connection), or answers with a     *)
(* body that is not JSON, or with a JSON value.                            *)
(***************************************************************************)
UpRaise == [kind |-> "raise"]
UpNonJson == [kind |-> "nonjson"]
UpJson(v) == [kind |-> "json", v |-> v]

Call(op, token, sd, ed) ==
    [op |-> op, token |-> token, start_date |-> sd, end_date |-> ed]

\* response.json() of a reply that arrived
ResponseJson(up) ==
    IF up.kind = "json" THEN Ok(up.v) ELSE Raise("JSONDecodeError")

TokenFields == {"link_token", "access_token", "error", "request_id"}
TokenObjects == {[k \in S |-> JStr(k \o "-1")] : S \in SUBSET TokenFields}
TokenBodies ==
    {JObj(f) : f \in TokenObjects}
        \cup {JNull, JNum(5), JBool(TRUE), JStr("Bad Gateway"),
              JStr("xlink_token"), JStr("access_token"),
              JList(<<>>), JList(<<JStr("link_token")>>),
              JList(<<JStr("access_token")>>)}
TokenReplies == {UpRaise, UpNonJson} \cup {UpJson(v) : v \in TokenBodies}

(***************************************************************************)
(* create_link_token, after requests.post returned `up`.                   *)
(***************************************************************************)
create_link_token_no_status(up) ==
    LET result == ResponseJson(up) IN
    IF ~result.ok THEN InternalError(result.exc)
    ELSE LET has == PyIn("link_token", result.v) IN
         IF ~has.ok THEN InternalError(has.exc)
         ELSE IF ~has.v
              THEN Response(200, JObj([k \in {"error"} |->
                                          JStr("Failed to create link token")]))
              ELSE LET tok == PyIndex(result.v, "link_token") IN
                   IF ~tok.ok THEN InternalError(tok.exc)
                   ELSE Response(200, JObj([k \in {"link_token"} |-> tok.v]))

create_link_token_response(up) ==
    IF up.kind = "raise" THEN InternalError("ConnectionError")
    ELSE
    LET result == ResponseJson(up) IN
    IF ~result.ok THEN InternalError(result.exc)
    ELSE LET has == PyIn("link_token", result.v) IN
         IF ~has.ok THEN InternalError(has.exc)
         ELSE IF ~has.v
              THEN Response(400, JObj([k \in {"error"} |->
                                          JStr("Failed to create link token")]))
              ELSE LET tok == PyIndex(result.v, "link_token") IN
                   IF ~tok.ok THEN InternalError(tok.exc)
                   ELSE Response(200, JObj([k \in {"link_token"} |-> tok.v]))

(***************************************************************************)
(* exchange_token.  request.json raises when the body is not JSON.         *)
(***************************************************************************)
NoJsonBody == [t |-> "nojson"]
ExchangeBodies ==
    {NoJsonBody, EmptyObj, JList(<<>>),
     JObj([k \in {"public_token"} |-> JStr("public-1")]),
     JObj([k \in {"public_token", "extra"} |-> JStr("public-2")])}

\* public_token = request.json['public_token']
exchange_token_public_token(body) ==
    IF body = NoJsonBody THEN Raise("UnsupportedMediaType")
    ELSE PyIndex(body, "public_token")

exchange_token_response(up) ==
    IF up.kind = "raise" THEN InternalError("ConnectionError")
    ELSE
    LET result == ResponseJson(up) IN
    IF ~result.ok THEN InternalError(result.exc)
    ELSE LET has == PyIn("access_token", result.v) IN
         IF ~has.ok THEN InternalError(has.exc)
         ELSE IF ~has.v
              THEN Response(400, JObj([k \in {"error"} |->
                                          JStr("Failed to exchange token")]))
              ELSE LET tok == PyIndex(result.v, "access_token") IN
                   IF ~tok.ok THEN InternalError(tok.exc)
                   ELSE Response(200, JObj([k \in {"access_token"} |-> tok.v]))

(***************************************************************************)
(* get_transactions: upstream data.                                        *)
(***************************************************************************)
TxnKeys == {"transaction_id", "date", "name", "amount", "category", "account_id"}

UpstreamValue(k) ==
    CASE k = "transaction_id" -> JStr("tx-1")
      [] k = "date" -> JStr("2024-01-01")
      [] k = "name" -> JStr("Coffee")
      [] k = "amount" -> JNum(350)
      [] k = "category" -> JList(<<JStr("Food")>>)
      [] k = "account_id" -> JStr("acc-1")

RawRecord(S) == JObj([k \in S |-> UpstreamValue(k)])
NullDateRecord == JObj([k \in {"transaction_id", "date"} |->
                           IF k = "date" THEN JNull ELSE JStr("tx-2")])
\* every subset of the keys present
AllRawRecords == {RawRecord(S) : S \in SUBSET TxnKeys}
\* all keys, no key, one key missing; and an element that is no object
SampleRecords ==
    {RawRecord(TxnKeys), RawRecord({})}
        \cup {RawRecord(TxnKeys \ {k}) : k \in TxnKeys}
        \cup {JStr("junk")}
TxnLists ==
    {<<>>}
        \cup {<<r>> : r \in AllRawRecords \cup {NullDateRecord, JStr("junk")}}
        \cup UNION {[1..n -> SampleRecords] : n \in 2..MaxTxns}

ErrorValues == {JStr("INVALID_ACCESS_TOKEN"),
                JObj([k \in {"error_code"} |-> JStr("ITEM_LOGIN_REQUIRED")])}

TransactionsBodies ==
    {JObj([k \in {"transactions", "total_transactions"} |->
              IF k = "transactions" THEN JList(l) ELSE JNum(Len(l))]) : l \in TxnLists}
        \cup {JObj([k \in {"error"} |-> e]) : e \in ErrorValues}
        \cup {JObj([k \in {"error", "transactions"} |->
                  IF k = "error" THEN JStr("PRODUCT_NOT_READY")
                  ELSE JList(<<RawRecord(TxnKeys)>>)])}
        \cup {JObj([k \in {"transactions"} |-> v]) :
                 v \in {JNull, EmptyObj, JNum(3), JStr("soon"),
                        JObj([k \in {"0"} |-> JNull]),
                        JList(<<RawRecord(TxnKeys)>>)}}
        \cup {EmptyObj, JNull, JNum(5), JStr("error"), JList(<<>>),
              JList(<<JStr("error")>>)}
TransactionsReplies ==
    {UpRaise, UpNonJson} \cup {UpJson(v) : v \in TransactionsBodies}

Account == JObj([k \in {"account_id"} |-> JStr("acc-1")])
AccountsBodies ==
    {JObj([k \in {"accounts"} |-> JList(<<Account>>)]),
     JObj([k \in {"error"} |-> JStr("INVALID_ACCESS_TOKEN")]),
     EmptyObj, JNull, JList(<<>>)}
AccountsReplies == {UpRaise, UpNonJson} \cup {UpJson(v) : v \in AccountsBodies}

\* request.args of a get_transactions request
ArgKeySets == {{}, {"access_token"}, {"access_token", "start_date", "end_date"}}
ArgValue(k) ==
    CASE k = "access_token" -> JStr("access-1")
      [] k = "start_date" -> JStr("2000-01-01")
      [] k = "end_date" -> JStr("2000-12-31")
GetArgs == {[k \in S |-> ArgValue(k)] : S \in ArgKeySets}

\* request.args.get(key)
ArgsGet(args, key) == IF key \in DOMAIN args THEN args[key] ELSE JNull

(***************************************************************************)
(* get_transactions: formatting the records for the iOS app.               *)
(***************************************************************************)
\* `for x in v`: the elements visited, or the exception.
PyIter(v) ==
    CASE v.t = "list" -> Ok(v.l)
      [] v.t = "obj" -> Ok(IF DOMAIN v.f = {} THEN <<>> ELSE <<JStr("key")>>)
      [] v.t = "str" -> Ok(IF v.s = "" THEN <<>> ELSE <<JStr("c")>>)
      [] OTHER -> Raise("TypeError")

\* `v[0]`
PyFirst(v) ==
    CASE v.t = "list" -> IF v.l = <<>> THEN Raise("IndexError") ELSE Ok(v.l[1])
      [] v.t = "str" -> IF v.s = "" THEN Raise("IndexError") ELSE Ok(JStr("c"))
      [] v.t = "obj" -> Raise("KeyError")
      [] OTHER -> Raise("TypeError")

\* the dict appended for one transaction
FormatTransaction(transaction) ==
    IF transaction.t # "obj" THEN Raise("AttributeError")
    ELSE Ok(JObj([k \in TxnKeys |->
            CASE k = "date" -> PyStr(PyGet(transaction, "date", JNull).v)
              [] k = "category" -> PyGet(transaction, "category", JList(<<>>)).v
              [] OTHER -> PyGet(transaction, k, JNull).v]))

RECURSIVE FormatLoop(_, _)
FormatLoop(rest, formatted_transactions) ==
    IF rest = <<>> THEN Ok(formatted_transactions)
    ELSE LET one == FormatTransaction(Head(rest)) IN
         IF ~one.ok THEN one
         ELSE FormatLoop(Tail(rest), Append(formatted_transactions, one.v))

RECURSIVE FormatLoopPrepend(_, _)
FormatLoopPrepend(rest, formatted_transactions) ==
    IF rest = <<>> THEN Ok(formatted_transactions)
    ELSE LET one == FormatTransaction(Head(rest)) IN
         IF ~one.ok THEN one
         ELSE FormatLoopPrepend(Tail(rest), <<one.v>> \o formatted_transactions)

FormatTransactionsReversed(transactions) == FormatLoopPrepend(transactions, <<>>)
FormatTransactions(transactions) == FormatLoop(transactions, <<>>)

\* lines 116-153, after the transactions call returned `up`
get_transactions_response(up, accounts) ==
    IF up.kind = "raise" THEN InternalError("ConnectionError")
    ELSE
    LET result == ResponseJson(up) IN
    IF ~result.ok THEN InternalError(result.exc)
    ELSE
    LET has == PyIn("error", result.v) IN
    IF ~has.ok THEN InternalError(has.exc)
    ELSE IF has.v
    THEN LET err == PyIndex(result.v, "error") IN
         IF ~err.ok THEN InternalError(err.exc)
         ELSE Response(400, JObj([k \in {"error"} |-> err.v]))
    ELSE
    LET transactions == PyGet(result.v, "transactions", JList(<<>>)) IN
    IF ~transactions.ok THEN InternalError(transactions.exc)
    ELSE
    LET total_transactions == PyGet(result.v, "total_transactions", JNum(0))
        sample == IF PyTruthy(transactions.v) THEN PyFirst(transactions.v)
                  ELSE Ok(JNull)
    IN
    IF ~sample.ok THEN InternalError(sample.exc)
    ELSE
    LET items == PyIter(transactions.v) IN
    IF ~items.ok THEN InternalError(items.exc)
    ELSE
    LET formatted == FormatTransactions(items.v) IN
    IF ~formatted.ok THEN InternalError(formatted.exc)
    ELSE
    LET accts == PyGet(accounts, "accounts", JList(<<>>)) IN
    IF ~accts.ok THEN InternalError(accts.exc)
    ELSE Response(200, JObj([k \in {"transactions", "total_transactions", "accounts"} |->
            CASE k = "transactions" -> JList(formatted.v)
              [] k = "total_transactions" -> total_transactions.v
              [] k = "accounts" -> accts.v]))

(***************************************************************************)
(* The proxy's handlers.                                                   *)
(***************************************************************************)
StartDays == {19782, 20759}    \* 2024-02-29, 2026-11-02

InitBackend ==
    /\ pc = "idle"
    /\ endpoint = "none"
    /\ request = JNull
    /\ calls = <<>>
    /\ replies = <<>>
    /\ now_reads = <<>>
    /\ end_date = 0
    /\ start_date = 0
    /\ accounts_result = JNull
    /\ resp = NoResp
    /\ clock \in StartDays
    /\ ticks = 0

Free == pc = "idle"

\* POST /create_link_token
create_link_token(up) ==
    /\ Free
    /\ endpoint' = "create_link_token"
    /\ request' = JNull
    /\ calls' = <<Call("link_token_create", JNull, NoDate, NoDate)>>
    /\ replies' = <<up>>
    /\ resp' = create_link_token_response(up)
    /\ pc' = "done"
    /\ now_reads' = <<>>
    /\ accounts_result' = JNull
    /\ end_date' = 0
    /\ start_date' = 0
    /\ UNCHANGED <<clock, ticks, uploadVars>>

\* POST /exchange_token
exchange_token(body, up) ==
    /\ Free
    /\ endpoint' = "exchange_token"
    /\ request' = body
    /\ LET public_token == exchange_token_public_token(body) IN
       IF ~public_token.ok
       THEN /\ calls' = <<>>
            /\ replies' = <<>>
            /\ resp' = InternalError(public_token.exc)
       ELSE /\ calls' = <<Call("public_token_exchange", public_token.v, NoDate, NoDate)>>
            /\ replies' = <<up>>
            /\ resp' = exchange_token_response(up)
    /\ pc' = "done"
    /\ now_reads' = <<>>
    /\ accounts_result' = JNull
    /\ end_date' = 0
    /\ start_date' = 0
    /\ UNCHANGED <<clock, ticks, uploadVars>>

\* GET /get_transactions, lines 80-87: the arguments and the date window
get_transactions_begin(args) ==
    /\ Free
    /\ endpoint' = "get_transactions"
    /\ request' = args
    /\ calls' = <<>>
    /\ replies' = <<>>
    /\ now_reads' = <<clock>>
    /\ end_date' = clock
    /\ start_date' = StartDate(clock)
    /\ accounts_result' = JNull
    /\ resp' = NoResp
    /\ pc' = "gt_accounts"
    /\ UNCHANGED <<clock, ticks, uploadVars>>

\* lines 89-101: the accounts call
get_transactions_accounts_retry(up) ==
    /\ pc = "gt_accounts"
    /\ calls' = Append(calls, Call("accounts_get", ArgsGet(request, "access_token"),
                                   NoDate, NoDate))
    /\ replies' = Append(replies, up)
    /\ IF up.kind # "json"
       THEN /\ pc' = IF Len(calls) = 0 THEN "gt_accounts" ELSE "done"
            /\ resp' = IF Len(calls) = 0 THEN resp
                       ELSE InternalError(IF up.kind = "raise" THEN "ConnectionError"
                                          ELSE "JSONDecodeError")
            /\ UNCHANGED accounts_result
       ELSE /\ pc' = "gt_transactions"
            /\ accounts_result' = up.v
            /\ UNCHANGED resp
    /\ UNCHANGED <<endpoint, request, now_reads, end_date, start_date, clock,
                   ticks, uploadVars>>

get_transactions_accounts(up) ==
    /\ pc = "gt_accounts"
    /\ calls' = Append(calls, Call("accounts_get", ArgsGet(request, "access_token"),
                                   NoDate, NoDate))
    /\ replies' = Append(replies, up)
    /\ IF up.kind # "json"
       THEN /\ pc' = "done"
            /\ resp' = InternalError(IF up.kind = "raise" THEN "ConnectionError"
                                     ELSE "JSONDecodeError")
            /\ UNCHANGED accounts_result
       ELSE /\ pc' = "gt_transactions"
            /\ accounts_result' = up.v
            /\ UNCHANGED resp
    /\ UNCHANGED <<endpoint, request, now_reads, end_date, start_date, clock,
                   ticks, uploadVars>>

\* lines 103-153: the transactions call and the response
get_transactions_transactions(up) ==
    /\ pc = "gt_transactions"
    /\ calls' = Append(calls, Call("transactions_get", ArgsGet(request, "access_token"),
                                   IsoDate(start_date), IsoDate(end_date)))
    /\ replies' = Append(replies, up)
    /\ resp' = get_transactions_response(up, accounts_result)
    /\ pc' = "done"
    /\ UNCHANGED <<endpoint, request, now_reads, end_date, start_date,
                   accounts_result, clock, ticks, uploadVars>>

\* the response has gone out; the worker takes the next request
NextRequest ==
    /\ pc = "done"
    /\ pc' = "idle"
    /\ endpoint' = "none"
    /\ request' = JNull
    /\ calls' = <<>>
    /\ replies' = <<>>
    /\ now_reads' = <<>>
    /\ end_date' = 0
    /\ start_date' = 0
    /\ accounts_result' = JNull
    /\ resp' = NoResp
    /\ UNCHANGED <<clock, ticks, uploadVars>>

\* midnight passes
Tick ==
    /\ ticks < MaxTicks
    /\ clock' = clock + 1
    /\ ticks' = ticks + 1
    /\ UNCHANGED <<pc, endpoint, request, calls, replies, now_reads, end_date,
                   start_date, accounts_result, resp, uploadVars>>

Next ==
    \/ \E up \in TokenReplies : create_link_token(up)
    \/ \E body \in ExchangeBodies, up \in TokenReplies : exchange_token(body, up)
    \/ \E args \in GetArgs : get_transactions_begin(args)
    \/ \E up \in AccountsReplies : get_transactions_accounts(up)
    \/ \E up \in TransactionsReplies : get_transactions_transactions(up)
    \/ NextRequest
    \/ Tick

(***************************************************************************)
(* The upload service (app/main.py).                                       *)
(*                                                                         *)
(* A filename is the sequence of its parts: name chunks, "/" separators    *)
(* and dotted suffixes.  A file's bytes are "P" (the first byte of a zip   *)
(* or OLE container, which is what a spreadsheet is) or "t" (text).        *)
(***************************************************************************)
Reqs == {1, 2}
Bytes == {"P", "t"}
Contents == UNION {[1..n -> Bytes] : n \in 0..MaxLen}
Filenames ==
    {<<"a", ".csv">>, <<"a", ".xlsx">>, <<"a", ".xls">>, <<"a", ".txt">>,
     <<"a", ".CSV">>, <<"d", "/", "a", ".csv">>}

NoFile == [exists |-> FALSE, data |-> <<>>]
File(data) == [exists |-> TRUE, data |-> data]

\* str.endswith
EndsWith(name, suffix) == Len(name) > 0 /\ name[Len(name)] = suffix

\* UPLOAD_DIR / file.filename names a file in a directory that exists
InUploadDir(name) == \A i \in 1..Len(name) : name[i] # "/"

\* open(file_path, "wb"): create or truncate
OpenWb(d, name) == [d EXCEPT ![name] = File(<<>>)]

\* the write of `data` through a descriptor opened at offset 0
WriteAtStart(old, data) ==
    File(data \o SubSeq(old.data, Len(data) + 1, Len(old.data)))

\* rows of a table whose first byte is the header
Records(data) ==
    JList([i \in 1..(Len(data) - 1) |->
              JObj([k \in {data[1]} |-> JStr(data[i + 1])])])

\* pd.read_csv(file_path).to_dict(orient='records')
ReadCsv(f) ==
    IF ~f.exists THEN Raise("FileNotFoundError")
    ELSE IF f.data = <<>> THEN Raise("EmptyDataError")
    ELSE IF f.data[1] = "P" THEN Raise("UnicodeDecodeError")
    ELSE Ok(Records(f.data))

\* pd.read_excel(file_path).to_dict(orient='records')
ReadExcel(f) ==
    IF ~f.exists THEN Raise("FileNotFoundError")
    ELSE IF f.data = <<>> \/ f.data[1] # "P" THEN Raise("ValueError")
    ELSE Ok(Records(f.data))

\* what the client gets for a raised HTTPException(status_code, detail)
HttpExceptionResponse(status, detail) ==
    Response(status, JObj([k \in {"detail"} |-> JStr(detail)]))

\* lines 34-51: format selection, parsing, the response
upload_file_response(name, f) ==
    LET df == IF EndsWith(name, ".csv") THEN ReadCsv(f)
              ELSE IF EndsWith(name, ".xlsx") \/ EndsWith(name, ".xls") THEN ReadExcel(f)
              ELSE Raise("400: Unsupported file format")
    IN  IF ~df.ok THEN HttpExceptionResponse(500, df.exc)
        ELSE Response(200, JObj([k \in {"message", "transactions"} |->
                 IF k = "message" THEN JStr("File uploaded successfully")
                 ELSE df.v]))

InitUpload ==
    /\ disk = [n \in Filenames |-> NoFile]
    /\ upc = [r \in Reqs |-> "idle"]
    /\ upload = [r \in Reqs |-> [filename |-> <<>>, bytes |-> <<>>]]
    /\ content = [r \in Reqs |-> <<>>]
    /\ uresp = [r \in Reqs |-> NoResp]
    /\ writes = <<>>

\* POST /api/upload reaches the handler
upload_file_begin(r, name, data) ==
    /\ upc[r] = "idle"
    /\ upload' = [upload EXCEPT ![r] = [filename |-> name, bytes |-> data]]
    /\ upc' = [upc EXCEPT ![r] = "open"]
    /\ UNCHANGED <<disk, content, uresp, writes, backendVars>>

\* lines 29-30
upload_file_open(r) ==
    /\ upc[r] = "open"
    /\ IF InUploadDir(upload[r].filename)
       THEN /\ disk' = OpenWb(disk, upload[r].filename)
            /\ upc' = [upc EXCEPT ![r] = "read"]
            /\ UNCHANGED uresp
       ELSE /\ uresp' = [uresp EXCEPT ![r] = HttpExceptionResponse(500, "FileNotFoundError")]
            /\ upc' = [upc EXCEPT ![r] = "done"]
            /\ UNCHANGED disk
    /\ UNCHANGED <<upload, content, writes, backendVars>>

\* line 31: content = await file.read()
upload_file_read(r) ==
    /\ upc[r] = "read"
    /\ content' = [content EXCEPT ![r] = upload[r].bytes]
    /\ upc' = [upc EXCEPT ![r] = "write"]
    /\ UNCHANGED <<disk, upload, uresp, writes, backendVars>>

\* line 32 and the end of the with block: the buffer reaches the file
upload_file_write(r) ==
    /\ upc[r] = "write"
    /\ disk' = [disk EXCEPT ![upload[r].filename] = WriteAtStart(@, content[r])]
    /\ writes' = Append(writes, r)
    /\ upc' = [upc EXCEPT ![r] = "parse"]
    /\ UNCHANGED <<upload, content, uresp, backendVars>>

\* lines 34-51
upload_file_parse(r) ==
    /\ upc[r] = "parse"
    /\ uresp' = [uresp EXCEPT ![r] =
                    upload_file_response(upload[r].filename, disk[upload[r].filename])]
    /\ upc' = [upc EXCEPT ![r] = "done"]
    /\ UNCHANGED <<disk, upload, content, writes, backendVars>>

NextUpload ==
    \E r \in Reqs :
        \/ \E name \in Filenames, data \in Contents : upload_file_begin(r, name, data)
        \/ upload_file_open(r)
        \/ upload_file_read(r)
        \/ upload_file_write(r)
        \/ upload_file_parse(r)

Init == InitBackend /\ InitUpload

Spec == Init /\ [][Next]_vars
InitUploadService == Init /\ clock = 20759
SpecUpload == InitUploadService /\ [][NextUpload]_vars

(***************************************************************************)
(* Properties.                                                             *)
(***************************************************************************)
Done == pc = "done"
HasErrorKey(r) == r.body.t = "obj" /\ "error" \in DOMAIN r.body.f
IsObjectWith(v, key) == v.t = "obj" /\ key \in DOMAIN v.f
Range(q) == {q[i] : i \in 1..Len(q)}
IsPrefix(p, q) == Len(p) <= Len(q) /\ \A i \in 1..Len(p) : p[i] = q[i]

TokenEndpoints == {"create_link_token", "exchange_token"}
RequiredField(ep) == IF ep = "create_link_token" THEN "link_token" ELSE "access_token"

\* a token endpoint has answered a request whose upstream response came back
\* without the required token field
LacksToken ==
    /\ Done
    /\ endpoint \in TokenEndpoints
    /\ Len(replies) = 1
    /\ replies[1].kind # "raise"
    /\ ~(replies[1].kind = "json" /\ IsObjectWith(replies[1].v, RequiredField(endpoint)))

\* C2 as stated: every upstream response that lacks the required token field
\* (link_token, access_token), whatever else it contains, is answered with
\* status 400 and a body with an error key, never with a success body.
C2_MissingTokenIs400 ==
    LacksToken =>
        /\ resp.status = 400
        /\ HasErrorKey(resp)
        /\ RequiredField(endpoint) \notin DOMAIN resp.body.f

\* C2 as amended: an upstream response that lacks the required token field is
\* never answered with a success body but with an error body, of status 400 when
\* the upstream body is a JSON object, and of status 500 when it is not JSON or
\* is a JSON null, number or boolean.
C2_MissingTokenIsError ==
    LacksToken =>
        /\ resp.status \in {400, 500}
        /\ HasErrorKey(resp)
        /\ RequiredField(endpoint) \notin DOMAIN resp.body.f
        /\ (replies[1].kind = "json" /\ replies[1].v.t = "obj" => resp.status = 400)
        /\ (replies[1].kind = "nonjson" => resp.status = 500)
        /\ (replies[1].kind = "json" /\ replies[1].v.t \in {"null", "num", "bool"}
                => resp.status = 500)

C2_Witness ==
    /\ LacksToken
    /\ endpoint = "create_link_token"
    /\ replies[1].kind = "json"
    /\ IsObjectWith(replies[1].v, "error")
    /\ IsObjectWith(replies[1].v, "access_token")
    /\ resp.status = 400

GtSuccess == Done /\ endpoint = "get_transactions" /\ resp.status = 200

\* the list get_transactions iterated over
UpstreamTransactions ==
    LET v == replies[2].v IN
    IF IsObjectWith(v, "transactions") /\ v.f["transactions"].t = "list"
    THEN v.f["transactions"].l
    ELSE <<>>

ReturnedTransactions == resp.body.f["transactions"].l

FieldOr(record, key, default) ==
    IF key \in DOMAIN record.f THEN record.f[key] ELSE default

\* C3: a raw record with any subset of the fixed keys absent is normalized
\* without raising into a record whose absent string fields (identifier, date,
\* name, account identifier) are "", whose absent amount is null and whose
\* absent category is the empty list, every present field keeping its value.
C3_AbsentFieldDefaults ==
    GtSuccess =>
        /\ Len(ReturnedTransactions) = Len(UpstreamTransactions)
        /\ \A i \in 1..Len(UpstreamTransactions) :
              LET raw == UpstreamTransactions[i]
                  out == ReturnedTransactions[i]
              IN  /\ \A k \in {"transaction_id", "date", "name", "account_id"} :
                        out.f[k] = FieldOr(raw, k, JStr(""))
                  /\ out.f["amount"] = FieldOr(raw, "amount", JNull)
                  /\ out.f["category"] = FieldOr(raw, "category", JList(<<>>))

\* C5: an exchange-token request whose body has no public_token field is
\* answered with status 400 (not 500) and an error body, and no upstream call
\* is made for it.
C5_MissingPublicTokenIs400 ==
    (Done /\ endpoint = "exchange_token" /\ request.t = "obj"
          /\ "public_token" \notin DOMAIN request.f)
        => /\ resp.status = 400
           /\ HasErrorKey(resp)
           /\ calls = <<>>

\* C6: the list returned by get_transactions has as many entries as the
\* upstream transactions list, and its i-th entry is derived from the i-th
\* upstream record: nothing is dropped, duplicated or reordered.
C6_OrderPreserved ==
    GtSuccess =>
        /\ Len(ReturnedTransactions) = Len(UpstreamTransactions)
        /\ \A i \in 1..Len(UpstreamTransactions) :
              LET raw == UpstreamTransactions[i]
                  out == ReturnedTransactions[i]
              IN  /\ \A k \in {"transaction_id", "name", "amount", "account_id"} :
                        out.f[k] = FieldOr(raw, k, JNull)
                  /\ out.f["category"] = FieldOr(raw, "category", JList(<<>>))
                  /\ ("date" \in DOMAIN raw.f /\ raw.f["date"].t = "str"
                        => out.f["date"] = raw.f["date"])

C6_Witness ==
    /\ GtSuccess
    /\ Len(UpstreamTransactions) >= 2
    /\ UpstreamTransactions[1] # UpstreamTransactions[2]
    /\ ReturnedTransactions[1] # ReturnedTransactions[2]

\* days since 1970-01-01 of the ISO date <<y, m, d>>
DaysFromCivil(date) ==
    LET m == date[2]
        d == date[3]
        y == IF m <= 2 THEN date[1] - 1 ELSE date[1]
        era == y \div 400
        yoe == y - era * 400
        doy == (153 * (IF m > 2 THEN m - 3 ELSE m + 9) + 2) \div 5 + d - 1
        doe == yoe * 365 + yoe \div 4 - yoe \div 100 + doy
    IN  era * 146097 + doe - 719468

\* C7: the date range sent to the upstream transactions call ends on today's
\* date and starts 730 days before it, both from a single reading of the
\* current date, whatever the caller put in the request.
C7_DateWindow ==
    \A i \in 1..Len(calls) :
        calls[i].op = "transactions_get" =>
            /\ Len(now_reads) = 1
            /\ DaysFromCivil(calls[i].end_date) = now_reads[1]
            /\ DaysFromCivil(calls[i].start_date) = now_reads[1] - 730
            /\ now_reads[1] <= clock

C7_Witness ==
    /\ Len(calls) = 2
    /\ calls[2].op = "transactions_get"
    /\ "start_date" \in DOMAIN request
    /\ clock > now_reads[1]
    /\ calls[2].end_date = <<2024, 2, 29>>
    /\ calls[2].start_date = <<2022, 3, 1>>

\* the upstream operations of an endpoint, in order
Plan(ep) ==
    CASE ep = "create_link_token" -> <<"link_token_create">>
      [] ep = "exchange_token" -> <<"public_token_exchange">>
      [] ep = "get_transactions" -> <<"accounts_get", "transactions_get">>
      [] OTHER -> <<>>

Ops == [i \in 1..Len(calls) |-> calls[i].op]

ResultField(op) ==
    CASE op = "link_token_create" -> "link_token"
      [] op = "public_token_exchange" -> "access_token"
      [] op = "accounts_get" -> "accounts"
      [] op = "transactions_get" -> "transactions"

\* the reply reports an error instead of the operation's result
ErrorBody(op, up) ==
    /\ up.kind = "json"
    /\ IsObjectWith(up.v, "error")
    /\ ~IsObjectWith(up.v, ResultField(op))

IsErrorResponse(r) == r.status \in {400, 500} /\ HasErrorKey(r)

\* C10 as stated: each upstream operation is attempted at most once per
\* request, in the fixed order, and when a call fails (raises, or returns an
\* error body) the handler answers with an error without any further call.
C10_NoRetry ==
    /\ IsPrefix(Ops, Plan(endpoint))
    /\ \A i \in 1..Len(replies) :
          (replies[i].kind = "raise" \/ ErrorBody(calls[i].op, replies[i]))
              => /\ i = Len(calls)
                 /\ (Done => IsErrorResponse(resp))

\* C10 as amended: each upstream operation is attempted at most once per
\* request, in the fixed order.  When a call raises or its body is not JSON, or
\* when a call other than the accounts call returns an error body, the handler
\* answers with an error and issues no further call.  The body of the accounts
\* call is not inspected: only a raise or a non-JSON body ends the request
\* before the transactions call.
C10_NoRetryAmended ==
    /\ IsPrefix(Ops, Plan(endpoint))
    /\ \A i \in 1..Len(replies) :
          (\/ replies[i].kind \in {"raise", "nonjson"}
           \/ (calls[i].op # "accounts_get" /\ ErrorBody(calls[i].op, replies[i])))
              => /\ i = Len(calls)
                 /\ Done
                 /\ IsErrorResponse(resp)
    /\ (Done /\ endpoint = "get_transactions" /\ Len(calls) = 1
            => replies[1].kind \in {"raise", "nonjson"})

C10_Witness ==
    /\ Done
    /\ endpoint = "get_transactions"
    /\ Len(calls) = 2
    /\ ErrorBody("accounts_get", replies[1])
    /\ replies[2].kind = "raise"
    /\ resp.status = 500

Recognized(name) ==
    EndsWith(name, ".csv") \/ EndsWith(name, ".xlsx") \/ EndsWith(name, ".xls")

\* C1: an upload whose filename does not end in .csv, .xlsx or .xls is
\* answered with status 400, never with 500 or a success.
C1_UnsupportedIs400 ==
    \A r \in Reqs :
        (upc[r] = "done" /\ ~Recognized(upload[r].filename))
            => uresp[r].status = 400

FailureShape(r) ==
    /\ r.status \in {400, 500}
    /\ HasErrorKey(r)
    /\ r.body.f["error"].t = "str"

\* C4: on every endpoint of both services a failure response has status 400
\* or 500 and a JSON object body with an error key whose value is a string.
C4_FailureBodyShape ==
    /\ (Done /\ resp.status # 200 => FailureShape(resp))
    /\ \A r \in Reqs :
          (upc[r] = "done" /\ uresp[r].status # 200) => FailureShape(uresp[r])

\* the proxy's part of C4 alone
C4_ProxyFailureBodyShape == Done /\ resp.status # 200 => FailureShape(resp)

\* C8: once a request has written its bytes, it ends (success, unsupported
\* suffix, parse failure) with the upload directory holding a file of its
\* filename whose content is exactly the bytes it uploaded.
C8_UploadPersisted ==
    \A r \in Reqs :
        (upc[r] = "done" /\ r \in Range(writes))
            => disk[upload[r].filename] = File(upload[r].bytes)

\* C9: when two uploads of the same filename and different contents run
\* concurrently, the file left behind is exactly the bytes of the upload whose
\* write completed last, and each request's response is the one parsed from
\* the bytes it uploaded itself.
C9_LastWriteWins ==
    \A r1, r2 \in Reqs :
        (/\ r1 # r2
         /\ upc[r1] = "done" /\ upc[r2] = "done"
         /\ Range(writes) = {r1, r2}
         /\ upload[r1].filename = upload[r2].filename
         /\ upload[r1].bytes # upload[r2].bytes)
            => /\ disk[upload[r1].filename] = File(upload[writes[Len(writes)]].bytes)
               /\ uresp[r1] = upload_file_response(upload[r1].filename,
                                                   File(upload[r1].bytes))

====
